---- MODULE Spec2Model ----
(***************************************************************************)
(* Model of src/keys/store.rs (aries-askar): the StoreKey bundle, the      *)
(* searchable / non-searchable ChaCha20-Poly1305 encryption helpers, the   *)
(* value envelope, the EntryEncryptor implementation and the JSON form of  *)
(* the bundle.                                                             *)
(*                                                                         *)
(* Byte buffers are sequences.  Every element of a buffer is a tuple whose *)
(* first component says what the byte is:                                  *)
(*   <<0, b>>                      a known byte b \in 0..255               *)
(*   <<1, j, ...>>                 byte j of an HMAC-SHA256 output         *)
(*   <<2, i, p, ...>>              byte i of a ChaCha20 payload, of byte p *)
(*   <<3, j, ...>>                 byte j of a Poly1305 tag                *)
(* The cryptographic bytes are terms: the first byte of an HMAC output, of  *)
(* a payload and of a tag carries what the whole was computed from.  The   *)
(* library primitives are taken to be perfect (a tag verifies only for the *)
(* key, nonce and payload it was computed from), which is the behaviour    *)
(* the code relies on.                                                     *)
(***************************************************************************)
EXTENDS Integers, Sequences, FiniteSets

VARIABLES key, held, op, arg, out, repeat

vars == <<key, held, op, arg, out, repeat>>

(***************************** sizes ***************************************)

NonceSize == 12

TagSize == 16

ENC_KEY_BYTES == 32

ENC_KEY_SIZE == NonceSize + ENC_KEY_BYTES + TagSize

HmacOutputSize == 32

(***************************** bounds **************************************)

MaxLen == 1

MaxTags == 2

(***************************** results *************************************)

Ok(v) == [ok |-> TRUE, val |-> v]

Err(kind, msg) == [ok |-> FALSE, kind |-> kind, msg |-> msg]

Panic(msg) == [ok |-> FALSE, kind |-> "panic", msg |-> msg]

(***************************** bytes ***************************************)

B(b) == <<0, b>>

IsData(e) == e[1] = 0

Take(s, n) == SubSeq(s, 1, IF n < Len(s) THEN n ELSE Len(s))

Drop(s, n) == SubSeq(s, n + 1, Len(s))

(***************************** library primitives **************************)

\* Hmac::<Sha256>::new_varkey(k); update(input); finalize().into_bytes()
hmac_sha256(hmac_key, input) ==
    [j \in 1..HmacOutputSize |->
        IF j = 1 THEN <<1, 1, hmac_key, input>> ELSE <<1, j>>]

poly1305_tag(k, nonce, payload) ==
    [j \in 1..TagSize |->
        IF j = 1 THEN <<3, 1, k, nonce, payload>> ELSE <<3, j>>]

\* ChaCha20Poly1305::encrypt(nonce, input): payload of Len(input) bytes, then the tag
chacha_encrypt(k, nonce, input) ==
    LET payload == [i \in 1..Len(input) |->
                       IF i = 1 THEN <<2, 1, input[1], k, nonce>>
                       ELSE <<2, i, input[i]>>]
    IN  payload \o poly1305_tag(k, nonce, payload)

\* ChaCha20Poly1305::decrypt(nonce, buffer): aead::Error unless the tag verifies
chacha_decrypt(k, nonce, buffer) ==
    IF Len(buffer) < TagSize
    THEN Err("aead", "aead::Error")
    ELSE LET payload == Take(buffer, Len(buffer) - TagSize)
             tag     == Drop(buffer, Len(buffer) - TagSize)
         IN  IF tag = poly1305_tag(k, nonce, payload)
             THEN Ok([i \in 1..Len(payload) |-> payload[i][3]])
             ELSE Err("aead", "aead::Error")

\* GenericArray::from_slice panics unless the slice has the array's length
ArrayKey_from_slice(bytes) ==
    IF Len(bytes) = ENC_KEY_BYTES THEN Ok(bytes) ELSE Panic("ArrayKey::from_slice")

(***************************** UTF-8 ***************************************)

IsCont(e) == IsData(e) /\ e[2] >= 128 /\ e[2] <= 191

RECURSIVE valid_utf8(_)
\* std::string::String::from_utf8's validation
valid_utf8(s) ==
    IF s = <<>> THEN TRUE
    ELSE IF ~IsData(s[1]) THEN FALSE
    ELSE LET b == s[1][2]
             n == Len(s)
         IN  IF b <= 127 THEN valid_utf8(Drop(s, 1))
             ELSE IF b >= 194 /\ b <= 223
                  THEN n >= 2 /\ IsCont(s[2]) /\ valid_utf8(Drop(s, 2))
             ELSE IF b >= 224 /\ b <= 239
                  THEN /\ n >= 3 /\ IsCont(s[2]) /\ IsCont(s[3])
                       /\ (b = 224 => s[2][2] >= 160)
                       /\ (b = 237 => s[2][2] <= 159)
                       /\ valid_utf8(Drop(s, 3))
             ELSE IF b >= 240 /\ b <= 244
                  THEN /\ n >= 4 /\ IsCont(s[2]) /\ IsCont(s[3]) /\ IsCont(s[4])
                       /\ (b = 240 => s[2][2] >= 144)
                       /\ (b = 244 => s[2][2] <= 143)
                       /\ valid_utf8(Drop(s, 4))
             ELSE FALSE

decode_utf8(value) ==
    IF valid_utf8(value) THEN Ok(value) ELSE Err("Encryption", "FromUtf8Error")

(***************************** encryption helpers **************************)

encrypt_searchable_stale_input(enc_key, hmac_key, input) ==
    LET result == hmac_sha256(hmac_key, held.arg)
        nonce  == SubSeq(result, 1, NonceSize)
        enc    == chacha_encrypt(enc_key, nonce, input)
    IN  Ok(nonce \o enc)

encrypt_searchable(enc_key, hmac_key, input) ==
    LET result == hmac_sha256(hmac_key, input)
        nonce  == SubSeq(result, 1, NonceSize)
        enc    == chacha_encrypt(enc_key, nonce, input)
    IN  Ok(nonce \o enc)

encrypt_non_searchable_no_nonce(enc_key, input, nonce) ==
    Ok(chacha_encrypt(enc_key, nonce, input))

\* nonce is the value random_array() returns in this call
encrypt_non_searchable(enc_key, input, nonce) ==
    LET enc == chacha_encrypt(enc_key, nonce, input)
    IN  Ok(nonce \o enc)

decrypt_unchecked(enc_key, input) ==
    LET nonce == Take(input, NonceSize)
        r     == chacha_decrypt(enc_key, nonce, Drop(input, NonceSize))
    IN  IF Len(input) < NonceSize THEN Panic("slice index out of range")
        ELSE IF r.ok THEN r
        ELSE Err("Encryption", "Error decrypting record")

decrypt(enc_key, input) ==
    IF Len(input) < NonceSize + TagSize
    THEN Err("Encryption", "Invalid length for encrypted buffer")
    ELSE LET nonce == SubSeq(input, 1, NonceSize)
             r     == chacha_decrypt(enc_key, nonce, Drop(input, NonceSize))
         IN  IF r.ok THEN r ELSE Err("Encryption", "Error decrypting record")

(***************************** StoreKey *************************************)

FieldNames ==
    <<"category_key", "name_key", "value_key", "item_hmac_key",
      "tag_name_key", "tag_value_key", "tags_hmac_key">>

\* ArrayKey<U32>: ENC_KEY_BYTES known bytes
ArrayKey(b) == [j \in 1..ENC_KEY_BYTES |-> B((37 * b + j) % 256)]

\* struct StoreKey, its seven keys given by the number each is generated from
StoreKey(ks) ==
    [category_key  |-> ArrayKey(ks[1]), name_key      |-> ArrayKey(ks[2]),
     value_key     |-> ArrayKey(ks[3]), item_hmac_key |-> ArrayKey(ks[4]),
     tag_name_key  |-> ArrayKey(ks[5]), tag_value_key |-> ArrayKey(ks[6]),
     tags_hmac_key |-> ArrayKey(ks[7])]

encrypt_category(self, category) ==
    encrypt_searchable(self.category_key, self.item_hmac_key, category)

encrypt_name(self, name) ==
    encrypt_searchable(self.name_key, self.item_hmac_key, name)

encrypt_value_bare(self, value, r) ==
    encrypt_non_searchable(r.value_key, value, r.nonce1)

\* r: the three random draws of the call, in the order the code makes them
encrypt_value(self, value, r) ==
    LET value_key == r.value_key
        value1    == encrypt_non_searchable(value_key, value, r.nonce1)
        result    == encrypt_non_searchable(self.value_key, value_key, r.nonce2)
    IN  Ok(result.val \o value1.val)

encrypt_tag_name_with_value_key(self, name) ==
    encrypt_searchable(self.tag_value_key, self.tags_hmac_key, name)

encrypt_tag_name(self, name) ==
    encrypt_searchable(self.tag_name_key, self.tags_hmac_key, name)

encrypt_tag_value(self, value) ==
    encrypt_searchable(self.tag_value_key, self.tags_hmac_key, value)

decrypt_category(self, enc_category) == decrypt(self.category_key, enc_category)

decrypt_name_with_category_key(self, enc_name) == decrypt(self.category_key, enc_name)

decrypt_name(self, enc_name) == decrypt(self.name_key, enc_name)

decrypt_value_unchecked(self, enc_value) ==
    LET value == Drop(enc_value, ENC_KEY_SIZE)
        r     == decrypt(self.value_key, Take(enc_value, ENC_KEY_SIZE))
        k     == ArrayKey_from_slice(r.val)
    IN  IF Len(enc_value) < ENC_KEY_SIZE THEN Panic("slice index out of range")
        ELSE IF ~r.ok THEN r
        ELSE IF ~k.ok THEN k
        ELSE decrypt(k.val, value)

decrypt_value(self, enc_value) ==
    IF Len(enc_value) < ENC_KEY_SIZE + TagSize
    THEN Err("Encryption", "Buffer is too short to represent an encrypted value")
    ELSE LET value == Drop(enc_value, ENC_KEY_SIZE)
             r     == decrypt(self.value_key, SubSeq(enc_value, 1, ENC_KEY_SIZE))
             k     == ArrayKey_from_slice(r.val)
         IN  IF ~r.ok THEN r
             ELSE IF ~k.ok THEN k
             ELSE decrypt(k.val, value)

decrypt_tag_name(self, enc_tag_name) == decrypt(self.tag_name_key, enc_tag_name)

decrypt_tag_value(self, enc_tag_value) == decrypt(self.tag_value_key, enc_tag_value)

(***************************** serialization *******************************)

HexDigits(bytes) ==
    [i \in 1..(2 * Len(bytes)) |->
        IF i % 2 = 1 THEN bytes[(i + 1) \div 2][2] \div 16
                     ELSE bytes[i \div 2][2] % 16]

\* hex::decode: an odd number of digits is an error
HexDecode(digits) ==
    IF Len(digits) % 2 = 1 THEN Err("hex", "OddLength")
    ELSE Ok([i \in 1..(Len(digits) \div 2) |->
                B(16 * digits[2 * i - 1] + digits[2 * i])])

to_string_swapped(self) ==
    Ok([i \in 1..Len(FieldNames) |->
          [name |-> FieldNames[i],
           hex  |-> HexDigits(self[FieldNames[IF i = 1 THEN 2 ELSE IF i = 2 THEN 1 ELSE i]])]])

\* serde_json::to_string: the fields in declaration order, each key a hex string
to_string(self) ==
    Ok([i \in 1..Len(FieldNames) |->
          [name |-> FieldNames[i], hex |-> HexDigits(self[FieldNames[i]])]])

Positions(input, f) == {i \in 1..Len(input) : input[i].name = f}

\* serde_json::from_slice: every field once, each a hex string of a whole key
from_slice(input) ==
    LET names == {FieldNames[i] : i \in 1..Len(FieldNames)}
        at(f) == CHOOSE i \in Positions(input, f) : TRUE
        dec(f) == HexDecode(input[at(f)].hex)
    IN  IF \E f \in names : Cardinality(Positions(input, f)) # 1
        THEN Err("Unsupported", "Invalid store key")
        ELSE IF \E f \in names : ~dec(f).ok \/ Len(dec(f).val) # ENC_KEY_BYTES
        THEN Err("Unsupported", "Invalid store key")
        ELSE Ok([f \in names |-> dec(f).val])

(***************************** EntryEncryptor ******************************)

Plaintext(name, value) == [variant |-> "Plaintext", name |-> name, value |-> value]

Encrypted(name, value) == [variant |-> "Encrypted", name |-> name, value |-> value]

EncEntryTag(name, value, plaintext) ==
    [name |-> name, value |-> value, plaintext |-> plaintext]

\* a String is held as its UTF-8 bytes; as_ref() / as_bytes() expose them
encrypt_entry_category(self, category) == encrypt_category(self, category)

encrypt_entry_name(self, name) == encrypt_name(self, name)

encrypt_entry_value(self, value, r) == encrypt_value(self, value, r)

encrypt_entry_tag(self, tag) ==
    IF tag.variant = "Plaintext"
    THEN EncEntryTag(encrypt_tag_name(self, tag.name).val, tag.value, TRUE)
    ELSE EncEntryTag(encrypt_tag_name(self, tag.name).val,
                     encrypt_tag_value(self, tag.value).val, FALSE)

encrypt_entry_tags_reversed(self, tags) ==
    Ok([i \in 1..Len(tags) |-> encrypt_entry_tag(self, tags[Len(tags) + 1 - i])])

encrypt_entry_tags(self, tags) ==
    Ok([i \in 1..Len(tags) |-> encrypt_entry_tag(self, tags[i])])

decrypt_entry_category(self, enc_category) ==
    LET r == decrypt_category(self, enc_category)
    IN  IF r.ok THEN decode_utf8(r.val) ELSE r

decrypt_entry_name(self, enc_name) ==
    LET r == decrypt_name(self, enc_name)
    IN  IF r.ok THEN decode_utf8(r.val) ELSE r

decrypt_entry_value(self, enc_value) == decrypt_value(self, enc_value)

\* the closure of try_fold applied to one tag: Ok(EntryTag) or the first error
decrypt_entry_tag(self, tag) ==
    LET n    == decrypt_tag_name(self, tag.name)
        name == IF n.ok THEN decode_utf8(n.val) ELSE n
        v    == decrypt_tag_value(self, tag.value)
        val  == IF tag.plaintext THEN decode_utf8(tag.value)
                ELSE IF v.ok THEN decode_utf8(v.val) ELSE v
    IN  IF ~name.ok THEN name
        ELSE IF ~val.ok THEN val
        ELSE IF tag.plaintext THEN Ok(Plaintext(name.val, val.val))
        ELSE Ok(Encrypted(name.val, val.val))

RECURSIVE try_fold_skipping(_, _, _)
try_fold_skipping(self, enc_tags, acc) ==
    IF enc_tags = <<>> THEN Ok(acc)
    ELSE LET t == decrypt_entry_tag(self, Head(enc_tags))
         IN  try_fold_skipping(self, Tail(enc_tags),
                               IF t.ok THEN Append(acc, t.val) ELSE acc)

RECURSIVE try_fold(_, _, _)
try_fold(self, enc_tags, acc) ==
    IF enc_tags = <<>> THEN Ok(acc)
    ELSE LET t == decrypt_entry_tag(self, Head(enc_tags))
         IN  IF t.ok THEN try_fold(self, Tail(enc_tags), Append(acc, t.val))
             ELSE t

decrypt_entry_tags_lenient(self, enc_tags) == try_fold_skipping(self, enc_tags, <<>>)

decrypt_entry_tags(self, enc_tags) == try_fold(self, enc_tags, <<>>)

(***************************** inputs ***************************************)

\* 'a', and the two bytes of U+00E9: alone neither of the two is valid UTF-8
Alphabet == {B(97), B(195), B(169)}

ByteStrs == UNION {[1..n -> Alphabet] : n \in 0..MaxLen}

\* the Strings: valid UTF-8, so that the two-byte character fits at MaxLen = 1
Strs == {s \in UNION {[1..n -> Alphabet] : n \in 0..(MaxLen + 1)} : valid_utf8(s)}

SampleTags ==
    {Plaintext(<<B(97)>>, <<B(195), B(169)>>),
     Encrypted(<<B(195), B(169)>>, <<B(97)>>),
     Encrypted(<<B(97)>>, <<>>)}

TagLists == UNION {[1..n -> SampleTags] : n \in 0..MaxTags}

Seeds == {1, 2}

\* what ArrayKey::random() and the two random_array() calls return in RNG state seed
Draws(seed) ==
    [value_key |-> ArrayKey(100 + seed),
     nonce1    |-> [j \in 1..NonceSize |-> B(2 * seed)],
     nonce2    |-> [j \in 1..NonceSize |-> B(2 * seed + 1)]]

NoDraw == [value_key |-> <<>>, nonce1 |-> <<>>, nonce2 |-> <<>>]

\* the bundles StoreKey::new() makes here: seven independent random keys
NewBundles == {StoreKey(<<1, 2, 3, 4, 5, 6, 7>>), StoreKey(<<8, 9, 10, 11, 12, 13, 14>>)}

\* the bundles from_slice() is given: those, and one whose field keys repeat
Bundles == NewBundles \cup {StoreKey(<<2, 2, 3, 4, 6, 6, 7>>)}

PubKeys(self) == {self.category_key, self.tag_value_key}

MacKeys(self) == {self.item_hmac_key, self.tags_hmac_key}

NoHeld == [op |-> "none", arg |-> <<>>, rnd |-> NoDraw]

SearchableOps ==
    {"encrypt_category", "encrypt_name", "encrypt_tag_name", "encrypt_tag_value",
     "encrypt_entry_category", "encrypt_entry_name", "encrypt_searchable"}

ByteOps ==
    SearchableOps \cup {"encrypt_value", "encrypt_entry_value", "encrypt_non_searchable"}

Tamper(c, i) == [c EXCEPT ![i] = B(255)]

CutLens ==
    <<0, NonceSize, NonceSize + TagSize - 1, NonceSize + TagSize,
      ENC_KEY_SIZE, ENC_KEY_SIZE + TagSize - 1, ENC_KEY_SIZE + TagSize,
      ENC_KEY_SIZE + NonceSize + TagSize - 1, ENC_KEY_SIZE + NonceSize + TagSize>>

NumVariants == Len(CutLens) + 6

\* the buffers a caller hands to a decrypt operation: a stored ciphertext c cut
\* short, whole, corrupted in its first or last byte, or extended
Variant(c, v) ==
    IF v <= Len(CutLens) THEN Take(c, CutLens[v])
    ELSE LET w == v - Len(CutLens)
         IN  IF w = 1 THEN c
             ELSE IF w = 2 THEN Tamper(c, 1)
             ELSE IF w = 3 THEN Tamper(c, Len(c))
             ELSE IF w = 4 THEN Append(c, B(0))
             ELSE IF w = 5 THEN Take(Tamper(c, 1), NonceSize + TagSize - 1)
             ELSE Take(Tamper(c, 1), ENC_KEY_SIZE + TagSize)

\* the stored ciphertext, when the stored value is one
HeldBuffers == IF held.op \in ByteOps THEN <<held.out.val>> ELSE <<>>

DecInput(i, v) == IF i = 0 THEN <<>> ELSE Variant(HeldBuffers[i], v)

DecChoices ==
    {<<0, 1>>} \cup
    {c \in (1..Len(HeldBuffers)) \X (1..NumVariants) :
        c[2] <= Len(CutLens) => CutLens[c[2]] < Len(HeldBuffers[c[1]])}

BadUtf8 == <<B(195)>>

\* corruptions of the stored encrypted tag t
BadTags(self, t) ==
    {[t EXCEPT !.name = Tamper(t.name, Len(t.name))],
     [t EXCEPT !.name = Take(t.name, NonceSize)],
     [t EXCEPT !.name = encrypt_tag_value(self, <<B(97)>>).val],
     [t EXCEPT !.name = encrypt_tag_name(self, BadUtf8).val],
     [t EXCEPT !.value = BadUtf8, !.plaintext = TRUE],
     [t EXCEPT !.value = encrypt_tag_value(self, BadUtf8).val, !.plaintext = FALSE],
     [t EXCEPT !.value = encrypt_tag_name(self, <<B(97)>>).val, !.plaintext = FALSE],
     [t EXCEPT !.value = <<B(97)>>, !.plaintext = FALSE]}

TagInputs ==
    IF held.op = "encrypt_entry_tags"
    THEN LET l == held.out.val
         IN  {l} \cup UNION {{[l EXCEPT ![i] = b] : b \in BadTags(key, l[i])} : i \in 1..Len(l)}
    ELSE {<<>>}

Texts ==
    UNION {LET t == to_string(b).val
           IN  {t, Tail(t), [i \in 1..Len(t) |-> t[Len(t) + 1 - i]], Append(t, t[1]),
                [t EXCEPT ![1].hex = Tail(t[1].hex)]} : b \in Bundles}

(***************************** the store session ***************************)

ReadOps ==
    {"to_string", "decrypt", "decrypt_category", "decrypt_name", "decrypt_value",
     "decrypt_tag_name", "decrypt_tag_value", "decrypt_entry_category",
     "decrypt_entry_name", "decrypt_entry_value", "decrypt_entry_tags"}

Init ==
    /\ key = StoreKey(<<1, 2, 3, 4, 5, 6, 7>>)
    /\ held = NoHeld
    /\ op = "init"
    /\ arg = <<>>
    /\ out = Ok(<<>>)
    /\ repeat = FALSE

Call(name, input, result) ==
    /\ op \notin ReadOps
    /\ op' = name
    /\ arg' = input
    /\ out' = result

\* an encryption: the caller stores what it returns, in place of what the same
\* operation returned before
Stored(name, input, r, result) ==
    /\ held.op \in {"none", name}
    /\ Call(name, input, result)
    /\ held' = [op |-> name, arg |-> input, rnd |-> r, out |-> result]
    /\ repeat' = (held.op = name /\ held.arg = input)
    /\ key' = key

\* a read: the session ends with it
Queried(name, input, result) ==
    /\ Call(name, input, result)
    /\ repeat' = FALSE
    /\ UNCHANGED <<key, held>>

\* the bundle is made or loaded once, before the store is used
New ==
    /\ held = NoHeld
    /\ key' \in NewBundles
    /\ Call("new", <<>>, Ok(<<>>))
    /\ UNCHANGED <<held, repeat>>

FromSlice ==
    \E input \in Texts :
        LET r == from_slice(input)
        IN  /\ held = NoHeld
            /\ Call("from_slice", input, r)
            /\ key' = IF r.ok THEN r.val ELSE key
            /\ UNCHANGED <<held, repeat>>

ToString == Queried("to_string", <<>>, to_string(key))

EncryptSearchable ==
    \E k \in PubKeys(key), h \in MacKeys(key), input \in ByteStrs :
        Stored("encrypt_searchable",
               [enc_key |-> k, hmac_key |-> h, input |-> input], NoDraw,
               encrypt_searchable(k, h, input))

EncryptNonSearchable ==
    \E k \in PubKeys(key), input \in ByteStrs, seed \in Seeds :
        Stored("encrypt_non_searchable", [enc_key |-> k, input |-> input],
               Draws(seed), encrypt_non_searchable(k, input, Draws(seed).nonce1))

Decrypt ==
    \E k \in PubKeys(key), c \in DecChoices :
      LET input == DecInput(c[1], c[2])
      IN  Queried("decrypt", [enc_key |-> k, input |-> input], decrypt(k, input))

EncryptCategory ==
    \E input \in ByteStrs :
        Stored("encrypt_category", input, NoDraw, encrypt_category(key, input))

EncryptName ==
    \E input \in ByteStrs :
        Stored("encrypt_name", input, NoDraw, encrypt_name(key, input))

EncryptValue ==
    \E input \in ByteStrs, seed \in Seeds :
        Stored("encrypt_value", input, Draws(seed),
               encrypt_value(key, input, Draws(seed)))

EncryptTagName ==
    \E input \in ByteStrs :
        Stored("encrypt_tag_name", input, NoDraw, encrypt_tag_name(key, input))

EncryptTagValue ==
    \E input \in ByteStrs :
        Stored("encrypt_tag_value", input, NoDraw, encrypt_tag_value(key, input))

DecryptCategory ==
    \E c \in DecChoices :
      LET input == DecInput(c[1], c[2])
      IN  Queried("decrypt_category", input, decrypt_category(key, input))

DecryptName ==
    \E c \in DecChoices :
      LET input == DecInput(c[1], c[2])
      IN  Queried("decrypt_name", input, decrypt_name(key, input))

DecryptValue ==
    \E c \in DecChoices :
      LET input == DecInput(c[1], c[2])
      IN  Queried("decrypt_value", input, decrypt_value(key, input))

DecryptTagName ==
    \E c \in DecChoices :
      LET input == DecInput(c[1], c[2])
      IN  Queried("decrypt_tag_name", input, decrypt_tag_name(key, input))

DecryptTagValue ==
    \E c \in DecChoices :
      LET input == DecInput(c[1], c[2])
      IN  Queried("decrypt_tag_value", input, decrypt_tag_value(key, input))

EncryptEntryCategory ==
    \E input \in Strs :
        Stored("encrypt_entry_category", input, NoDraw,
               encrypt_entry_category(key, input))

EncryptEntryName ==
    \E input \in Strs :
        Stored("encrypt_entry_name", input, NoDraw, encrypt_entry_name(key, input))

EncryptEntryValue ==
    \E input \in ByteStrs, seed \in Seeds :
        Stored("encrypt_entry_value", input, Draws(seed),
               encrypt_entry_value(key, input, Draws(seed)))

EncryptEntryTags ==
    \E input \in TagLists :
        Stored("encrypt_entry_tags", input, NoDraw, encrypt_entry_tags(key, input))

DecryptEntryCategory ==
    \E c \in DecChoices :
      LET input == DecInput(c[1], c[2])
      IN  Queried("decrypt_entry_category", input, decrypt_entry_category(key, input))

DecryptEntryName ==
    \E c \in DecChoices :
      LET input == DecInput(c[1], c[2])
      IN  Queried("decrypt_entry_name", input, decrypt_entry_name(key, input))

DecryptEntryValue ==
    \E c \in DecChoices :
      LET input == DecInput(c[1], c[2])
      IN  Queried("decrypt_entry_value", input, decrypt_entry_value(key, input))

DecryptEntryTags ==
    \E input \in TagInputs :
        Queried("decrypt_entry_tags", input, decrypt_entry_tags(key, input))

Next ==
    \/ New \/ FromSlice \/ ToString
    \/ EncryptSearchable \/ EncryptNonSearchable \/ Decrypt
    \/ EncryptCategory \/ EncryptName \/ EncryptValue
    \/ EncryptTagName \/ EncryptTagValue
    \/ DecryptCategory \/ DecryptName \/ DecryptValue
    \/ DecryptTagName \/ DecryptTagValue
    \/ EncryptEntryCategory \/ EncryptEntryName \/ EncryptEntryValue
    \/ EncryptEntryTags
    \/ DecryptEntryCategory \/ DecryptEntryName \/ DecryptEntryValue
    \/ DecryptEntryTags

Spec == Init /\ [][Next]_vars

(***************************** properties **********************************)

EncryptionError(r) == ~r.ok /\ r.kind = "Encryption"

\* the buffer a decrypt call was given
Input == IF op = "decrypt" THEN arg.input ELSE arg

\* C1: what encrypt_entry_category, encrypt_entry_name, encrypt_entry_value and
\* encrypt_entry_tags return decrypts, under the same StoreKey, to the original
\* category, name, value and tags (same order, count and variants).
C1_RoundTrip ==
    /\ (op = "decrypt_entry_category" /\ held.op = "encrypt_entry_category"
            /\ arg = held.out.val) => out = Ok(held.arg)
    /\ (op = "decrypt_entry_name" /\ held.op = "encrypt_entry_name"
            /\ arg = held.out.val) => out = Ok(held.arg)
    /\ (op = "decrypt_entry_value" /\ held.op = "encrypt_entry_value"
            /\ arg = held.out.val) => out = Ok(held.arg)
    /\ (op = "decrypt_entry_tags" /\ held.op = "encrypt_entry_tags"
            /\ arg = held.out.val) => out = Ok(held.arg)

C1_Witness ==
    /\ op = "decrypt_entry_tags" /\ held.op = "encrypt_entry_tags"
    /\ arg = held.out.val
    /\ Len(held.arg) = 2
    /\ held.arg[1].variant = "Plaintext" /\ held.arg[2].variant = "Encrypted"
    /\ out.ok

\* the MAC key the searchable call that was stored derives its nonce from
HeldMacKey ==
    IF held.op = "encrypt_searchable" THEN held.arg.hmac_key
    ELSE IF held.op \in {"encrypt_tag_name", "encrypt_tag_value"} THEN key.tags_hmac_key
    ELSE key.item_hmac_key

HeldPlain == IF held.op \in {"encrypt_searchable", "encrypt_non_searchable"}
             THEN held.arg.input ELSE held.arg

\* C2: a searchable encryption given the key and plaintext of an earlier call
\* returns the bytes that call returned, and its nonce is the first NonceSize
\* bytes of HMAC-SHA256(mac_key, plaintext), no random draw being used.
C2_Deterministic ==
    /\ [][(op' \in SearchableOps /\ held.op = op' /\ held.arg = arg')
            => out' = held.out]_vars
    /\ [](held.op \in SearchableOps =>
            /\ held.out.ok
            /\ Take(held.out.val, NonceSize)
                 = SubSeq(hmac_sha256(HeldMacKey, HeldPlain), 1, NonceSize))

C2_Witness ==
    /\ repeat
    /\ op = "encrypt_category"
    /\ out.ok /\ out = held.out
    /\ arg # <<>>

\* C3: encrypt_non_searchable and encrypt_searchable return Len(x) + NonceSize +
\* TagSize bytes: the nonce, then Len(x) payload bytes, then the TagSize tag bytes.
C3_Layout ==
    op \in {"encrypt_searchable", "encrypt_non_searchable"} =>
        LET x == arg.input
            nonce == IF op = "encrypt_non_searchable" THEN held.rnd.nonce1
                     ELSE SubSeq(hmac_sha256(arg.hmac_key, x), 1, NonceSize)
        IN  /\ out.ok
            /\ Len(out.val) = Len(x) + NonceSize + TagSize
            /\ Len(nonce) = NonceSize
            /\ SubSeq(out.val, 1, NonceSize) = nonce
            /\ \A i \in 1..Len(x) :
                   /\ out.val[NonceSize + i][1] = 2
                   /\ out.val[NonceSize + i][3] = x[i]
            /\ SubSeq(out.val, NonceSize + Len(x) + 1, Len(out.val))
                 = poly1305_tag(arg.enc_key, nonce,
                                SubSeq(out.val, NonceSize + 1, NonceSize + Len(x)))

C3_Witness ==
    /\ op = "encrypt_non_searchable"
    /\ arg.input = <<>>
    /\ Len(out.val) = NonceSize + TagSize

\* C4 as claimed: encrypt_value returns ENC_KEY_SIZE + Len(x) + TagSize bytes.
C4_Claimed ==
    op \in {"encrypt_value", "encrypt_entry_value"} =>
        Len(out.val) = ENC_KEY_SIZE + Len(arg) + TagSize

\* C4: encrypt_value returns ENC_KEY_SIZE + NonceSize + Len(x) + TagSize bytes, the
\* first ENC_KEY_SIZE of them the per-value key wrapped under the bundle's value_key,
\* the rest the value encrypted under the per-value key with a nonce of its own.
C4_Envelope ==
    op \in {"encrypt_value", "encrypt_entry_value"} =>
        /\ out.ok
        /\ Len(out.val) = ENC_KEY_SIZE + NonceSize + Len(arg) + TagSize
        /\ SubSeq(out.val, 1, ENC_KEY_SIZE)
             = encrypt_non_searchable(key.value_key, held.rnd.value_key,
                                      held.rnd.nonce2).val
        /\ Len(held.rnd.value_key) = ENC_KEY_BYTES
        /\ decrypt(held.rnd.value_key, Drop(out.val, ENC_KEY_SIZE)) = Ok(arg)

C4_Witness ==
    /\ op = "encrypt_value"
    /\ arg # <<>>
    /\ Len(out.val) = ENC_KEY_SIZE + NonceSize + Len(arg) + TagSize

ShortOps ==
    {"decrypt", "decrypt_category", "decrypt_name", "decrypt_tag_name",
     "decrypt_tag_value", "decrypt_entry_category", "decrypt_entry_name"}

ValueOps == {"decrypt_value", "decrypt_entry_value"}

\* C5: a decrypt operation given fewer than NonceSize + TagSize bytes, and
\* decrypt_value given fewer than ENC_KEY_SIZE + TagSize bytes, returns the length
\* error of kind Encryption: no panic, no plaintext.
C5_TooShort ==
    /\ (op \in ShortOps /\ Len(Input) < NonceSize + TagSize) =>
           out = Err("Encryption", "Invalid length for encrypted buffer")
    /\ (op \in ValueOps /\ Len(Input) < ENC_KEY_SIZE + TagSize) =>
           out = Err("Encryption",
                     "Buffer is too short to represent an encrypted value")

C5_Witness ==
    /\ op = "decrypt_name"
    /\ Len(arg) = NonceSize + TagSize - 1
    /\ ~out.ok

\* the ciphertexts one call of encrypt_searchable or encrypt_non_searchable made
SingleOps == SearchableOps \cup {"encrypt_non_searchable"}

\* the cipher key the stored ciphertext was produced under
HeldKey ==
    IF held.op \in {"encrypt_searchable", "encrypt_non_searchable"}
    THEN held.arg.enc_key
    ELSE IF held.op \in {"encrypt_category", "encrypt_entry_category"}
    THEN key.category_key
    ELSE IF held.op \in {"encrypt_name", "encrypt_entry_name"} THEN key.name_key
    ELSE IF held.op = "encrypt_tag_name" THEN key.tag_name_key
    ELSE key.tag_value_key

\* the cipher key a decrypt call reads with
ReadKey ==
    IF op = "decrypt" THEN arg.enc_key
    ELSE IF op \in {"decrypt_category", "decrypt_entry_category"}
    THEN key.category_key
    ELSE IF op \in {"decrypt_name", "decrypt_entry_name"} THEN key.name_key
    ELSE IF op = "decrypt_tag_name" THEN key.tag_name_key
    ELSE key.tag_value_key

\* the field of the record an operation of StoreKey is for
Field(o) ==
    IF o \in {"encrypt_category", "encrypt_entry_category", "decrypt_category",
              "decrypt_entry_category"} THEN "category"
    ELSE IF o \in {"encrypt_name", "encrypt_entry_name", "decrypt_name",
                   "decrypt_entry_name"} THEN "name"
    ELSE IF o \in {"encrypt_tag_name", "decrypt_tag_name"} THEN "tag_name"
    ELSE IF o \in {"encrypt_tag_value", "decrypt_tag_value"} THEN "tag_value"
    ELSE IF o \in {"decrypt_value", "decrypt_entry_value"} THEN "value"
    ELSE "none"

\* a decrypt call was given, whole, the ciphertext that was stored
ReadsHeld ==
    /\ held.op \in SingleOps
    /\ op \in ShortOps \cup ValueOps
    /\ Input = held.out.val

\* C6 as claimed: under one StoreKey the ciphertext of one field is rejected by
\* the decrypt operation of every other field.
C6_Claimed ==
    (ReadsHeld /\ Field(held.op) # "none" /\ Field(op) # "none"
        /\ Field(op) # Field(held.op)) => EncryptionError(out)

\* C6: a ciphertext made by encrypt_searchable or encrypt_non_searchable under a
\* key is rejected with an Encryption error by decrypt under any other key, so the
\* ciphertext of one field is rejected by the decrypt operation of every other
\* field whose key differs from that field's key, and by decrypt_value.
C6_WrongKey ==
    /\ (ReadsHeld /\ op \in ShortOps /\ ReadKey # HeldKey) => EncryptionError(out)
    /\ (ReadsHeld /\ op \in ValueOps) => EncryptionError(out)

C6_Witness ==
    /\ ReadsHeld
    /\ held.op = "encrypt_category" /\ op = "decrypt_name"
    /\ held.arg # <<>>
    /\ key.name_key # key.category_key
    /\ out = Err("Encryption", "Error decrypting record")

\* C7: from_slice of the text to_string returns for a StoreKey is that StoreKey,
\* key for key, and to_string leaves the StoreKey as it is.
C7_SerdeRoundTrip ==
    /\ [](op = "from_slice" =>
            \A b \in Bundles :
                arg = to_string(b).val => (out = Ok(b) /\ key = b))
    /\ [](op = "to_string" =>
            /\ out.ok
            /\ from_slice(out.val) = Ok(key)
            /\ \A i \in 1..Len(FieldNames) :
                   /\ out.val[i].name = FieldNames[i]
                   /\ Len(out.val[i].hex) = 2 * ENC_KEY_BYTES)
    /\ [][op' = "to_string" => key' = key]_vars

C7_Witness ==
    /\ op = "from_slice"
    /\ out.ok
    /\ key = out.val
    /\ arg = to_string(key).val
    /\ key = StoreKey(<<8, 9, 10, 11, 12, 13, 14>>)

\* C8: encrypt_entry_tags returns one EncEntryTag per tag, in order: plaintext
\* says whether the tag is Plaintext, the value is the tag value's own bytes when
\* it is and encrypt_searchable(tag_value_key, tags_hmac_key, value) otherwise, and
\* the name is always encrypt_searchable(tag_name_key, tags_hmac_key, name).
C8_TagMapping ==
    op = "encrypt_entry_tags" =>
        /\ out.ok
        /\ Len(out.val) = Len(arg)
        /\ \A i \in 1..Len(arg) :
             LET t == arg[i]
                 e == out.val[i]
             IN  /\ e.plaintext = (t.variant = "Plaintext")
                 /\ e.name = encrypt_searchable(key.tag_name_key,
                                                key.tags_hmac_key, t.name).val
                 /\ e.name # t.name
                 /\ e.value = IF t.variant = "Plaintext" THEN t.value
                              ELSE encrypt_searchable(key.tag_value_key,
                                                      key.tags_hmac_key, t.value).val

C8_Witness ==
    /\ op = "encrypt_entry_tags"
    /\ Len(arg) = 2
    /\ arg[1].variant = "Encrypted" /\ arg[2].variant = "Plaintext"
    /\ out.val[2].plaintext /\ ~out.val[1].plaintext

\* the entry alone cannot be decrypted to a tag
EntryFails(t) ==
    LET n == decrypt(key.tag_name_key, t.name)
        v == decrypt(key.tag_value_key, t.value)
    IN  \/ ~n.ok
        \/ ~valid_utf8(n.val)
        \/ t.plaintext /\ ~valid_utf8(t.value)
        \/ ~t.plaintext /\ (~v.ok \/ ~valid_utf8(v.val))

\* C9: decrypt_entry_tags returns an Encryption error, and no list, as soon as one
\* entry has a name or a value that does not decrypt or is not valid UTF-8; what it
\* returns otherwise has one tag per entry.
C9_AllOrNothing ==
    op = "decrypt_entry_tags" =>
        /\ (\E i \in 1..Len(arg) : EntryFails(arg[i])) => EncryptionError(out)
        /\ out.ok => Len(out.val) = Len(arg)

C9_Witness ==
    /\ op = "decrypt_entry_tags"
    /\ Len(arg) = 2
    /\ ~EntryFails(arg[1]) /\ EntryFails(arg[2])
    /\ EncryptionError(out)

\* C10: decrypt_value returns an Encryption error on every input shorter than
\* ENC_KEY_SIZE + NonceSize + TagSize, the shortest encrypt_value returns, and it
\* never panics: the key unwrapped from the first ENC_KEY_SIZE bytes, when the
\* unwrapping succeeds, has ENC_KEY_BYTES bytes.
C10_ShortValue ==
    op \in ValueOps =>
        LET r == decrypt(key.value_key, Take(arg, ENC_KEY_SIZE))
        IN  /\ Len(arg) < ENC_KEY_SIZE + NonceSize + TagSize => EncryptionError(out)
            /\ (~out.ok => out.kind # "panic")
            /\ (Len(arg) >= ENC_KEY_SIZE + TagSize /\ r.ok)
                   => Len(r.val) = ENC_KEY_BYTES

C10_Witness ==
    /\ op = "decrypt_value"
    /\ Len(arg) >= ENC_KEY_SIZE + TagSize
    /\ Len(arg) < ENC_KEY_SIZE + NonceSize + TagSize
    /\ decrypt(key.value_key, Take(arg, ENC_KEY_SIZE)).ok
    /\ out = Err("Encryption", "Invalid length for encrypted buffer")

====
